---- MODULE Spec2Model ----
(***************************************************************************)
(* A model of the dependency-aware parallel skill scheduler                *)
(* (app/core/skills/parallel_executor.py) together with the skill registry *)
(* (app/core/skills/registry.py) and the skill contract                    *)
(* (app/core/skills/base.py) it is run against.                            *)
(***************************************************************************)
EXTENDS Integers, Sequences, FiniteSets, TLC

(* ---------------------------------------------------------------------- *)
(* Bounds of the model                                                     *)
(* ---------------------------------------------------------------------- *)
MaxReq == 3      \* longest request list passed to execute_skills
MaxConc == 2     \* largest max_concurrency given to the constructor

(* ---------------------------------------------------------------------- *)
(* Skill identifiers and error texts                                       *)
(* ---------------------------------------------------------------------- *)
Skills == {"query_metrics", "generate_report", "analyze_root_cause"}

NoResult == [skill_name |-> "", success |-> FALSE, error |-> "none", data |-> 0]

ErrTimeout == "timeout"                 \* "执行超时 (..s)"
ErrNotFound == "not_found"              \* "Skill .. 未找到"
ErrNoGetSkill == "no_attr_get_skill"    \* 'SkillRegistry' object has no attribute 'get_skill'
ErrNoGet == "no_attr_get"               \* 'SkillOutput' object has no attribute 'get'
ErrHandler == "handler_error"           \* str(e) of the handler's exception
ErrMissing == "not_found_or_failed"     \* "Skill .. 未找到或执行失败"

VARIABLES
    dependency_graph,  \* self.dependency_graph: skill -> set of skills
    max_concurrency,   \* self.max_concurrency
    registry,          \* self.registry
    pc,                \* position of the execute_skills coroutine
    skill_requests,    \* the argument of execute_skills
    dependency_map,    \* local of _build_execution_batches
    remaining,         \* local of _build_execution_batches
    batches,           \* batches, each a sequence of request positions
    batch_idx,         \* index of the batch being executed
    offset,            \* i of the chunk loop of _execute_batch
    results,           \* local results of _execute_batch
    task,              \* state of the _execute_single_skill call per request
    task_result,       \* its SkillExecutionResult
    handler,           \* what skill.execute of that call has done so far
    all_results,       \* local of execute_skills
    ordered_results,   \* the list execute_skills returns
    recognizer,        \* the class of the intent recognizer
    client_available,  \* self.client_available
    user_message,      \* the message: the keywords it contains
    rpc,               \* position of recognize / recognize_with_params
    attempted,         \* the tiers the call has entered, with their outcome
    response,          \* the provider's answer to the call's last request
    result,            \* the classification result the call returned
    agent,             \* the class of the agent the endpoint was given
    entry,             \* what the caller called: run or chat_stream
    node,              \* position of AgentGraph.run in its graph
    state,             \* the AgentState the nodes pass on
    executed,          \* the nodes the graph has started, in order
    executing,         \* the skill whose execute() is awaited, if any
    invoked,           \* the skills whose execute() was called
    failure,           \* the exception ainvoke raised, if any
    final_state,       \* what run returned
    spc,               \* position of event_generator
    events             \* the events event_generator has yielded

recognizerVars == <<recognizer, client_available, user_message, rpc,
                    attempted, response, result>>

agentVars == <<agent, entry, node, state, executed, executing, invoked,
               failure, final_state, spc, events>>

\* what the executor's steps leave alone
otherVars == <<recognizerVars, agentVars>>

vars == <<dependency_graph, max_concurrency, registry, pc,
          skill_requests, dependency_map, remaining, batches, batch_idx,
          offset, results, task, task_result, handler, all_results,
          ordered_results, otherVars>>

buildVars == <<dependency_map, remaining, batches>>
execVars == <<batch_idx, offset, results, task, task_result, handler,
              all_results, ordered_results>>
configVars == <<max_concurrency, registry>>

(* ---------------------------------------------------------------------- *)
(* The registry                                                            *)
(* ---------------------------------------------------------------------- *)
\* SkillRegistry() of registry.py: registers its three skills under their
\* class names (base.py:44) and offers get(), but no get_skill().
SkillRegistry ==
    [has_get_skill |-> FALSE,
     skills |-> {"QueryMetricsSkill", "GenerateReportSkill", "AnalyzeRootCauseSkill"}]

\* A registry object that offers the get_skill() the executor calls.
DuckRegistry(S) == [has_get_skill |-> TRUE, skills |-> S]

\* the registries an executor is constructed with here: the repository's
\* own, and registries with get_skill() that hold every skill or lack the
\* one the constructed dependency graph makes another skill wait for
Registries ==
    {SkillRegistry, DuckRegistry(Skills), DuckRegistry(Skills \ {"query_metrics"})}

\* self.registry.get_skill(skill_name) as evaluated at line 218
get_skill(reg, skill_name) ==
    IF ~reg.has_get_skill THEN "AttributeError"
    ELSE IF skill_name \in reg.skills THEN "skill"
    ELSE "None"

(* ---------------------------------------------------------------------- *)
(* Helpers                                                                 *)
(* ---------------------------------------------------------------------- *)
Min(a, b) == IF a < b THEN a ELSE b

Range(s) == {s[i] : i \in DOMAIN s}

requested_skills(reqs) == {reqs[i].skill : i \in DOMAIN reqs}

SkillExecutionResult(name, ok, err, d) ==
    [skill_name |-> name, success |-> ok, error |-> err, data |-> d]

(* ---------------------------------------------------------------------- *)
(* Init: the state after ParallelSkillExecutor.__init__                    *)
(* ---------------------------------------------------------------------- *)
InitialGraph ==
    [s \in Skills |-> IF s = "analyze_root_cause" THEN {"query_metrics"} ELSE {}]

ExecutorInit(graph, reg, conc) ==
    /\ dependency_graph = graph
    /\ max_concurrency = conc
    /\ registry = reg
    /\ pc = "idle"
    /\ skill_requests = <<>>
    /\ dependency_map = [s \in {} |-> {}]
    /\ remaining = {}
    /\ batches = <<>>
    /\ batch_idx = 0
    /\ offset = 0
    /\ results = <<>>
    /\ task = <<>>
    /\ task_result = <<>>
    /\ handler = <<>>
    /\ all_results = <<>>
    /\ ordered_results = <<>>

\* no recognizer call has been made
NoRecognition == [intent |-> "", confidence |-> [nan |-> FALSE, value |-> 0]]

\* no request has been made of the provider
NoResponse == [raised |-> FALSE, code |-> 0]

RecognizerIdle ==
    /\ recognizer = "IntentRecognizer"
    /\ client_available = FALSE
    /\ user_message = {}
    /\ rpc = "idle"
    /\ attempted = <<>>
    /\ response = NoResponse
    /\ result = NoRecognition

\* final_response: None, or a text made of parts
None == [set |-> FALSE, parts |-> <<>>]
Text(parts) == [set |-> TRUE, parts |-> parts]

\* initial_state of run (agent.py:393-406) for a message
initial_state ==
    [intent |-> "None",
     intent_confidence |-> [nan |-> FALSE, value |-> 0],
     selected_skills |-> <<>>,
     skill_results |-> <<>>,
     messages |-> <<"human">>,
     final_response |-> None]

\* run has not returned
NoFinalState == [intent |-> "None"]

\* an agent constructed and not yet called
AgentIdle(a, e) ==
    /\ agent = a
    /\ entry = e
    /\ node = "idle"
    /\ state = initial_state
    /\ executed = <<>>
    /\ executing = ""
    /\ invoked = <<>>
    /\ failure = ""
    /\ final_state = NoFinalState
    /\ spc = "idle"
    /\ events = <<>>

InitWith(graph, reg, conc) ==
    /\ ExecutorInit(graph, reg, conc)
    /\ RecognizerIdle
    /\ AgentIdle("AgentGraph", "run")

\* the executor as test_parallel_executor constructs it
TestMaxConcurrency == 3
InitBatch == InitWith(InitialGraph, SkillRegistry, TestMaxConcurrency)

\* self.dependency_graph[skill_name] = depends_on (line 285)
with_dependency(graph, skill_name, depends_on) ==
    [graph EXCEPT ![skill_name] = depends_on]

\* Dependency graphs that add_dependency calls make of the constructed one:
\* none, a chain, a cycle of three, a self-dependency, and a cycle of two
\* next to a free skill.
NoDeps == with_dependency(InitialGraph, "analyze_root_cause", {})
Chain == with_dependency(InitialGraph, "generate_report", {"analyze_root_cause"})
Cycle3 == with_dependency(Chain, "query_metrics", {"generate_report"})
SelfDep == with_dependency(InitialGraph, "query_metrics", {"query_metrics"})
Cycle2 == with_dependency(InitialGraph, "query_metrics", {"analyze_root_cause"})

ExecGraphs == {InitialGraph, NoDeps, Chain, Cycle3, SelfDep, Cycle2}

\* an executor constructed with any registry and max_concurrency, after the
\* add_dependency calls that make one of ExecGraphs
Init ==
    \E graph \in ExecGraphs : \E reg \in Registries : \E conc \in 1..MaxConc :
        InitWith(graph, reg, conc)

(* ---------------------------------------------------------------------- *)
(* add_dependency                                                          *)
(* ---------------------------------------------------------------------- *)
\* a registration that also refreshes the dependency map of the run in
\* flight from the graph it has changed
add_dependency_live(skill_name, depends_on) ==
    /\ pc # "build"
    /\ dependency_graph' = with_dependency(dependency_graph, skill_name, depends_on)
    /\ dependency_map' =
          [s \in DOMAIN dependency_map |->
              with_dependency(dependency_graph, skill_name, depends_on)[s]
                  \cap requested_skills(skill_requests)]
    /\ UNCHANGED <<otherVars, configVars, pc, skill_requests, remaining, batches,
                   execVars>>

\* lines 277-286. The method is synchronous and _build_execution_batches
\* (called at line 78) has no await, so on the event loop a call cannot fall
\* between the steps of a batch construction.
add_dependency(skill_name, depends_on) ==
    /\ pc # "build"
    /\ dependency_graph' = with_dependency(dependency_graph, skill_name, depends_on)
    /\ UNCHANGED <<otherVars, configVars, pc, skill_requests, buildVars, execVars>>

\* a call made while no run is in progress
AddDependency ==
    /\ pc = "idle"
    /\ \E k \in Skills : \E d \in SUBSET Skills : add_dependency(k, d)

(* ---------------------------------------------------------------------- *)
(* execute_skills: entry, and _build_execution_batches                     *)
(* ---------------------------------------------------------------------- *)
RequestLists ==
    UNION {{[i \in 1..n |-> [skill |-> f[i], params |-> i]] : f \in [1..n -> Skills]}
              : n \in 0..MaxReq}

\* every dependency filtered out
valid_deps_none(graph, reqs, skill_name) == {}

\* lines 125-127: the dependencies that are themselves requested
valid_deps(graph, reqs, skill_name) ==
    graph[skill_name] \cap requested_skills(reqs)

\* lines 74-78 and 120-132
ExecuteSkills ==
    /\ pc = "idle"
    /\ \E reqs \in RequestLists :
        /\ skill_requests' = reqs
        /\ task' = [i \in DOMAIN reqs |-> "new"]
        /\ task_result' = [i \in DOMAIN reqs |-> NoResult]
        /\ handler' = [i \in DOMAIN reqs |-> "not_invoked"]
        /\ IF reqs = <<>>
           THEN /\ pc' = "returned"
                /\ UNCHANGED buildVars
           ELSE /\ pc' = "build"
                /\ dependency_map' =
                      [s \in requested_skills(reqs) |->
                          valid_deps(dependency_graph, reqs, s)]
                /\ remaining' = requested_skills(reqs)
                /\ batches' = <<>>
    /\ UNCHANGED <<otherVars, dependency_graph, configVars, batch_idx, offset,
                   results, all_results, ordered_results>>

\* a readiness test that does not look at the dependencies
ready_skills_of_any(depmap, rem) == rem

\* lines 136-140
ready_skills_of(depmap, rem) ==
    {s \in rem : \A dep \in depmap[s] : dep \notin rem}

\* no forced batch when nothing is ready
ready_skills_no_force(depmap, rem) == ready_skills_of(depmap, rem)

\* only one ready skill scheduled per iteration
ready_skills_one(depmap, rem) ==
    LET r == IF ready_skills_of(depmap, rem) = {} THEN rem
             ELSE ready_skills_of(depmap, rem)
    IN {CHOOSE x \in r : TRUE}

\* a cycle broken by forcing one of the remaining skills only
ready_skills_force_one(depmap, rem) ==
    IF ready_skills_of(depmap, rem) = {} THEN {CHOOSE x \in rem : TRUE}
    ELSE ready_skills_of(depmap, rem)

\* lines 142-145
ready_skills(depmap, rem) ==
    IF ready_skills_of(depmap, rem) = {} THEN rem ELSE ready_skills_of(depmap, rem)

\* lines 148-151: the requests of the batch, in request order
batch_of(reqs, ready) ==
    SelectSeq([i \in DOMAIN reqs |-> i], LAMBDA i : reqs[i].skill \in ready)

\* one iteration of the while loop, lines 134-155 (and the return at 157)
BuildIteration ==
    /\ pc = "build"
    /\ remaining # {}
    /\ LET ready == ready_skills(dependency_map, remaining) IN
        /\ batches' = Append(batches, batch_of(skill_requests, ready))
        /\ remaining' = remaining \ ready
        /\ IF remaining \ ready = {}
           THEN /\ pc' = "gather"
                /\ batch_idx' = 1
           ELSE /\ pc' = "build"
                /\ UNCHANGED batch_idx
    /\ UNCHANGED <<otherVars, dependency_graph, configVars, skill_requests,
                   dependency_map, offset, results, task, task_result, handler,
                   all_results, ordered_results>>

NextBatch == AddDependency \/ ExecuteSkills \/ BuildIteration

SpecBatch == InitBatch /\ [][NextBatch]_vars

(* ---------------------------------------------------------------------- *)
(* _execute_batch and _execute_single_skill                                *)
(* ---------------------------------------------------------------------- *)
CurrentBatch == batches[batch_idx]

\* the whole batch gathered at once, whatever max_concurrency is
chunk_end_all(len, off, maxc) == len

\* lines 176-183: the positions of the batch gathered together, starting
\* at offset
chunk_end(len, off, maxc) ==
    IF len <= maxc THEN len ELSE Min(off + maxc, len)

CurrentChunk ==
    {CurrentBatch[j] :
        j \in (offset + 1)..chunk_end(Len(CurrentBatch), offset, max_concurrency)}

\* the coroutines awaited one after the other: only the first of the chunk
\* becomes a task
GatherOne ==
    /\ pc = "gather"
    /\ task' = [i \in DOMAIN task |->
                    IF i = CurrentBatch[offset + 1] THEN "scheduled" ELSE task[i]]
    /\ pc' = "await"
    /\ UNCHANGED <<otherVars, dependency_graph, configVars, skill_requests, buildVars,
                   batch_idx, offset, results, task_result, handler,
                   all_results, ordered_results>>

\* asyncio.gather(*tasks) at line 177 or 183: the coroutines of the chunk
\* become tasks of the event loop
Gather ==
    /\ pc = "gather"
    /\ task' = [i \in DOMAIN task |-> IF i \in CurrentChunk THEN "scheduled" ELSE task[i]]
    /\ pc' = "await"
    /\ UNCHANGED <<otherVars, dependency_graph, configVars, skill_requests, buildVars,
                   batch_idx, offset, results, task_result, handler,
                   all_results, ordered_results>>

\* the return statements of _execute_single_skill (lines 235, 247, 258)
Finish(i, r, h) ==
    /\ task' = [task EXCEPT ![i] = "done"]
    /\ task_result' = [task_result EXCEPT ![i] = r]
    /\ handler' = [handler EXCEPT ![i] = h]
    /\ UNCHANGED <<otherVars, dependency_graph, configVars, pc, skill_requests,
                   buildVars, batch_idx, offset, results, all_results,
                   ordered_results>>

\* lines 211-226 and 254-263: the first step of the task, up to the await
StartSkill ==
    \E i \in DOMAIN task :
    /\ task[i] = "scheduled"
    /\ \A j \in DOMAIN task : j < i => task[j] # "scheduled"  \* the loop runs its ready tasks in order
    /\ LET name == skill_requests[i].skill
           skill == get_skill(registry, name) IN
        CASE skill = "AttributeError" ->
               Finish(i, SkillExecutionResult(name, FALSE, ErrNoGetSkill, 0), "not_invoked")
          [] skill = "None" ->
               Finish(i, SkillExecutionResult(name, FALSE, ErrNotFound, 0), "not_invoked")
          [] OTHER ->
               /\ task' = [task EXCEPT ![i] = "awaiting"]
               /\ handler' = [handler EXCEPT ![i] = "running"]
               /\ UNCHANGED <<otherVars, dependency_graph, configVars, pc,
                              skill_requests, buildVars, batch_idx, offset,
                              results, task_result, all_results, ordered_results>>

\* lines 228-241: the handler returned a mapping
HandlerReturnsDict ==
    \E i \in DOMAIN task :
    /\ task[i] = "awaiting"
    /\ Finish(i, SkillExecutionResult(skill_requests[i].skill, TRUE, "none",
                                      skill_requests[i].params), "returned")

\* lines 238, 254-263: the handler returned a SkillOutput (base.py:53), which
\* has no get()
HandlerReturnsSkillOutput ==
    \E i \in DOMAIN task :
    /\ task[i] = "awaiting"
    /\ Finish(i, SkillExecutionResult(skill_requests[i].skill, FALSE, ErrNoGet, 0),
              "returned")

\* the handler's exception not caught: it ends execute_skills
HandlerRaisesEscapes ==
    \E i \in DOMAIN task :
    /\ task[i] = "awaiting"
    /\ task' = [task EXCEPT ![i] = "done"]
    /\ handler' = [handler EXCEPT ![i] = "raised"]
    /\ pc' = "returned"
    /\ UNCHANGED <<otherVars, dependency_graph, configVars, skill_requests, buildVars,
                   batch_idx, offset, results, task_result, all_results,
                   ordered_results>>

\* lines 254-263: the handler raised
HandlerRaises ==
    \E i \in DOMAIN task :
    /\ task[i] = "awaiting"
    /\ Finish(i, SkillExecutionResult(skill_requests[i].skill, FALSE, ErrHandler, 0),
              "raised")

\* a wait_for that has no timeout: the handler is awaited for as long as it
\* keeps running
TimeoutNever ==
    \E i \in {} : Finish(i, NoResult, "cancelled")

\* lines 243-252: wait_for gave up on the handler
Timeout ==
    \E i \in DOMAIN task :
    /\ task[i] = "awaiting"
    /\ Finish(i, SkillExecutionResult(skill_requests[i].skill, FALSE, ErrTimeout, 0),
              "cancelled")

\* line 92: a later result of the same skill name replaces an earlier one
RECURSIVE result_map(_, _)
result_map(rs, name) ==
    IF rs = <<>> THEN NoResult
    ELSE IF rs[Len(rs)].skill_name = name THEN rs[Len(rs)]
    ELSE result_map(SubSeq(rs, 1, Len(rs) - 1), name)

\* the results left in the order the batches produced them
order_results_unsorted(reqs, rs) == rs

\* lines 92-105
order_results(reqs, rs) ==
    [i \in DOMAIN reqs |->
        IF \E k \in DOMAIN rs : rs[k].skill_name = reqs[i].skill
        THEN result_map(rs, reqs[i].skill)
        ELSE SkillExecutionResult(reqs[i].skill, FALSE, ErrMissing, 0)]

\* a gather that returned as soon as one of its tasks had finished
gather_done_first(chunk) == \E i \in chunk : task[i] = "done"

\* asyncio.gather (lines 177, 183) completes when all its tasks have
gather_done(chunk) == \A i \in chunk : task[i] = "done"

\* the gather of the chunk has completed: lines 184-201, 89 and, after the
\* last batch, 92-107
GatherReturns ==
    /\ pc = "await"
    /\ gather_done(CurrentChunk)
    /\ LET len == Len(CurrentBatch)
           last == chunk_end(len, offset, max_concurrency)
           got == results \o [j \in 1..(last - offset) |-> task_result[CurrentBatch[offset + j]]]
       IN
        IF last < len
        THEN /\ results' = got
             /\ offset' = offset + max_concurrency
             /\ pc' = "gather"
             /\ UNCHANGED <<batch_idx, all_results, ordered_results>>
        ELSE /\ results' = <<>>
             /\ offset' = 0
             /\ all_results' = all_results \o got
             /\ IF batch_idx < Len(batches)
                THEN /\ batch_idx' = batch_idx + 1
                     /\ pc' = "gather"
                     /\ UNCHANGED ordered_results
                ELSE /\ ordered_results' = order_results(skill_requests, all_results \o got)
                     /\ pc' = "returned"
                     /\ UNCHANGED batch_idx
    /\ UNCHANGED <<otherVars, dependency_graph, configVars, skill_requests, buildVars,
                   task, task_result, handler>>

Next ==
    \/ ExecuteSkills
    \/ BuildIteration
    \/ Gather
    \/ StartSkill
    \/ HandlerReturnsDict
    \/ HandlerReturnsSkillOutput
    \/ HandlerRaises
    \/ Timeout
    \/ GatherReturns

Spec == Init /\ [][Next]_vars

\* The event loop runs every step of execute_skills that is ready, and the
\* timer of asyncio.wait_for (lines 223-226) fires while the handler is still
\* awaited. Nothing is assumed of the handlers: each may return, raise, or
\* never complete.
Fairness ==
    /\ WF_vars(BuildIteration)
    /\ WF_vars(Gather)
    /\ WF_vars(StartSkill)
    /\ WF_vars(Timeout)
    /\ WF_vars(GatherReturns)

\* an executor whose registry resolves every skill, so that every request
\* reaches its handler, with the cycle of three as its graph: the requests
\* of a list then form a forced batch, a chain of batches or a single batch,
\* according to the skills the list names
FairGraphs == {Cycle3}

InitFair ==
    \E graph \in FairGraphs : \E conc \in 1..MaxConc :
        InitWith(graph, DuckRegistry(Skills), conc)

SpecFair == InitFair /\ [][Next]_vars /\ Fairness

\* the depends_on lists of the calls made during a run: empty or one skill
InFlightDependsOn == {{}} \cup {{s} : s \in Skills}

\* a call made by another coroutine while execute_skills is suspended at
\* line 88, in the await of a gather
AddDependencyInFlight ==
    /\ pc \in {"gather", "await"}
    /\ \E k \in Skills : \E d \in InFlightDependsOn : add_dependency(k, d)

\* runs of the executor of the repository (its registry, the default
\* graph) with add_dependency calls made by other coroutines in between
NextRegister ==
    \/ ExecuteSkills
    \/ BuildIteration
    \/ Gather
    \/ StartSkill
    \/ GatherReturns
    \/ AddDependencyInFlight

SpecRegister == InitBatch /\ [][NextRegister]_vars

(* ---------------------------------------------------------------------- *)
(* Vocabulary of the properties                                            *)
(* ---------------------------------------------------------------------- *)
\* _build_execution_batches has returned its batches
BuildDone == pc \in {"gather", "await", "returned"} /\ skill_requests # <<>>

Positions == DOMAIN skill_requests

Requested == requested_skills(skill_requests)

\* the number of the batch that holds request position i (0: none)
BatchOfPosition(i) ==
    IF \E k \in DOMAIN batches : i \in Range(batches[k])
    THEN CHOOSE k \in DOMAIN batches : i \in Range(batches[k])
    ELSE 0

\* the requested dependencies of the request at position i, read from the
\* dependency graph itself
RequestedDeps(i) == dependency_graph[skill_requests[i].skill] \cap Requested

\* skills reachable from s along requested dependencies in at most n steps
RECURSIVE DepsWithin(_, _)
DepsWithin(S, n) ==
    IF n = 0 THEN S
    ELSE DepsWithin(S \cup UNION {dependency_graph[t] \cap Requested : t \in S}, n - 1)

DependsOnItself(s) ==
    s \in DepsWithin(dependency_graph[s] \cap Requested, Cardinality(Requested))

AcyclicRequest == \A s \in Requested : ~DependsOnItself(s)

InFlight == {i \in DOMAIN task : task[i] \in {"scheduled", "awaiting"}}

HandlersInFlight == {i \in DOMAIN handler : handler[i] = "running"}

(* ---------------------------------------------------------------------- *)
(* C1                                                                      *)
(* ---------------------------------------------------------------------- *)
\* C1: the list execute_skills returns is as long as the request list and
\* its i-th result carries the skill name of the i-th request, whatever the
\* dependency graph, the outcomes of the invocations and the batch order.
C1_OrderRoundTrip ==
    pc = "returned" =>
        /\ Len(ordered_results) = Len(skill_requests)
        /\ \A i \in Positions : ordered_results[i].skill_name = skill_requests[i].skill

\* a returned run of three requests whose batches ran in another order than
\* the requests, with a success, a timeout and another failure among them
C1_Witness ==
    /\ pc = "returned"
    /\ Len(skill_requests) = 3
    /\ Len(batches) >= 2
    /\ \E i \in DOMAIN all_results : all_results[i].skill_name # skill_requests[i].skill
    /\ \E i \in Positions : ordered_results[i].success
    /\ \E i \in Positions : ordered_results[i].error = ErrTimeout
    /\ \E i \in Positions : ordered_results[i].error = ErrHandler

(* ---------------------------------------------------------------------- *)
(* C2                                                                      *)
(* ---------------------------------------------------------------------- *)
\* C2: when the dependencies among the requested skills are acyclic, every
\* requested dependency of a request in batch k lies in a batch before k,
\* and a dependency on a skill that is not requested delays nothing: a
\* request without requested dependencies is in the first batch.
C2_DepsInEarlierBatch ==
    (BuildDone /\ AcyclicRequest) =>
        \A i \in Positions :
            /\ BatchOfPosition(i) >= 1
            /\ \A j \in Positions :
                  skill_requests[j].skill \in RequestedDeps(i)
                      => BatchOfPosition(j) < BatchOfPosition(i)
            /\ RequestedDeps(i) = {} => BatchOfPosition(i) = 1

\* a request placed behind a dependency that is requested after it, while
\* it also depends on a skill that is not requested, next to a request in
\* the first batch whose only dependencies are not requested
C2_Witness ==
    /\ BuildDone /\ AcyclicRequest
    /\ \E i, j \in Positions :
          /\ skill_requests[j].skill \in RequestedDeps(i)
          /\ BatchOfPosition(j) < BatchOfPosition(i)
          /\ i < j
          /\ dependency_graph[skill_requests[i].skill] \ Requested # {}
    /\ \E i \in Positions :
          /\ RequestedDeps(i) = {}
          /\ dependency_graph[skill_requests[i].skill] # {}

(* ---------------------------------------------------------------------- *)
(* C3                                                                      *)
(* ---------------------------------------------------------------------- *)
\* C3: two requests, for skills A and B, where B depends on A and there is
\* no other dependency between the two: in either request order the
\* batches are exactly [A] and then [B].
C3_TwoBatches ==
    \A a, b \in Positions :
        ( /\ BuildDone
          /\ Len(skill_requests) = 2
          /\ a # b
          /\ RequestedDeps(b) = {skill_requests[a].skill}
          /\ RequestedDeps(a) = {}
          /\ skill_requests[a].skill # skill_requests[b].skill )
        => batches = << <<a>>, <<b>> >>

\* the dependent skill is requested first and still runs second
C3_Witness ==
    /\ BuildDone
    /\ Len(skill_requests) = 2
    /\ RequestedDeps(1) = {skill_requests[2].skill}
    /\ RequestedDeps(2) = {}
    /\ skill_requests[1].skill # skill_requests[2].skill
    /\ batches = << <<2>>, <<1>> >>

(* ---------------------------------------------------------------------- *)
(* C4                                                                      *)
(* ---------------------------------------------------------------------- *)
\* C4: when no requested skill has a dependency inside the requested set,
\* there is exactly one batch and it holds every request.
C4_OneBatch ==
    (BuildDone /\ \A i \in Positions : RequestedDeps(i) = {}) =>
        /\ Len(batches) = 1
        /\ batches[1] = [i \in Positions |-> i]

\* several requests in one batch although one of them has a dependency, on
\* a skill that is not requested
C4_Witness ==
    /\ BuildDone
    /\ Len(skill_requests) >= 2
    /\ \A i \in Positions : RequestedDeps(i) = {}
    /\ \E i \in Positions : dependency_graph[skill_requests[i].skill] # {}
    /\ Len(batches) = 1

(* ---------------------------------------------------------------------- *)
(* C5                                                                      *)
(* ---------------------------------------------------------------------- *)
\* C5: with a dependency cycle among the requested skills the loop of
\* _build_execution_batches always has a next iteration that schedules at
\* least one more skill, so it ends after at most as many iterations as
\* there are requested skills, and the run returns one result per request.
C5_CycleTerminates ==
    (skill_requests # <<>> /\ ~AcyclicRequest) =>
        /\ pc = "build" =>
              /\ remaining # {}
              /\ ready_skills(dependency_map, remaining) # {}
              /\ Len(batches) + Cardinality(remaining) <= Cardinality(Requested)
        /\ BuildDone =>
              /\ remaining = {}
              /\ Len(batches) <= Cardinality(Requested)
              /\ \A i \in Positions : BatchOfPosition(i) >= 1
        /\ pc = "returned" =>
              /\ Len(ordered_results) = Len(skill_requests)
              /\ \A i \in Positions : ordered_results[i].skill_name = skill_requests[i].skill
              /\ \A i \in Positions : task[i] = "done"

\* the cycle of three, all three requested, forced into one batch, returned
C5_Witness ==
    /\ pc = "returned"
    /\ dependency_graph = Cycle3
    /\ Requested = Skills
    /\ Len(ordered_results) = 3
    /\ Len(batches) = 1

(* ---------------------------------------------------------------------- *)
(* C6                                                                      *)
(* ---------------------------------------------------------------------- *)
\* C6: at every moment at most max_concurrency _execute_single_skill calls,
\* and so at most max_concurrency skill handlers, are in flight.
C6_BoundedConcurrency ==
    /\ Cardinality(InFlight) <= max_concurrency
    /\ HandlersInFlight \subseteq InFlight

\* a batch larger than max_concurrency: max_concurrency handlers run and a
\* member of the batch has not been started
C6_Witness ==
    /\ pc = "await"
    /\ Len(CurrentBatch) > max_concurrency
    /\ max_concurrency >= 2
    /\ Cardinality(HandlersInFlight) = max_concurrency
    /\ \E i \in Range(CurrentBatch) : task[i] = "new"

(* ---------------------------------------------------------------------- *)
(* C7                                                                      *)
(* ---------------------------------------------------------------------- *)
\* C7: no member of a batch is started before every member of the batch
\* before it has produced its result.
C7_BatchesSequential ==
    BuildDone =>
        \A k \in DOMAIN batches : \A i \in Range(batches[k]) :
            task[i] # "new" =>
                \A m \in 1..(k - 1) : \A j \in Range(batches[m]) : task[j] = "done"

\* one member of a batch has its result, its sibling is still running, and
\* the dependent in the next batch has not been started
C7_Witness ==
    /\ pc = "await"
    /\ batch_idx < Len(batches)
    /\ \E i, j \in Range(CurrentBatch) : task[i] = "done" /\ task[j] = "awaiting"
    /\ \A i \in Range(batches[batch_idx + 1]) : task[i] = "new"
    /\ \E i \in Range(batches[batch_idx + 1]) : RequestedDeps(i) # {}

(* ---------------------------------------------------------------------- *)
(* C8                                                                      *)
(* ---------------------------------------------------------------------- *)
\* C8: an invocation that wait_for gave up on has a failed result with the
\* timeout error, and an invocation whose handler returned has a success
\* result of its own, whatever happened to the other members of its batch.
C8_TimeoutIsolated ==
    \A i \in DOMAIN task :
        /\ handler[i] = "cancelled" =>
              /\ task[i] = "done"
              /\ ~task_result[i].success
              /\ task_result[i].error = ErrTimeout
        /\ handler[i] = "returned" =>
              /\ task[i] = "done"
              /\ task_result[i].success
              /\ task_result[i].skill_name = skill_requests[i].skill

(* ---------------------------------------------------------------------- *)
(* C9                                                                      *)
(* ---------------------------------------------------------------------- *)
\* C9: a handler that raised gives a failed result with the error text; the
\* run still returns with a result of its own for every request: every
\* request was started, also in later batches and also when it depends on
\* the failed skill, and the handler of every resolved skill was invoked.
C9_FailureIsolated ==
    /\ \A i \in DOMAIN task :
          handler[i] = "raised" =>
              /\ task[i] = "done"
              /\ ~task_result[i].success
              /\ task_result[i].error = ErrHandler
              /\ task_result[i].skill_name = skill_requests[i].skill
    /\ pc = "returned" =>
          \A i \in Positions :
              /\ task[i] = "done"
              /\ task_result[i].skill_name = skill_requests[i].skill
              /\ get_skill(registry, skill_requests[i].skill) = "skill"
                    => handler[i] # "not_invoked"

\* a handler of the first batch raised, its sibling succeeded, and the
\* skill of the second batch that depends on the failed one was invoked
C9_Witness ==
    /\ pc = "returned"
    /\ Len(batches) = 2
    /\ \E i, j \in Range(batches[1]) :
          /\ handler[i] = "raised"
          /\ task_result[j].success
          /\ \E d \in Range(batches[2]) :
                /\ skill_requests[i].skill \in RequestedDeps(d)
                /\ handler[d] = "returned"

(* ---------------------------------------------------------------------- *)
(* C10                                                                     *)
(* ---------------------------------------------------------------------- *)
\* C10: a requested skill that the registry does not resolve has a failed
\* result with the not-found error at its position, it is in no batch, and
\* a request whose only requested dependencies are unresolved skills is not
\* moved behind the first batch.
Unresolved(i) == get_skill(registry, skill_requests[i].skill) = "None"

C10_UnresolvedNotBatched ==
    /\ pc = "returned" =>
          \A i \in Positions :
              Unresolved(i) =>
                  /\ Len(ordered_results) = Len(skill_requests)
                  /\ ~ordered_results[i].success
                  /\ ordered_results[i].error \in {ErrNotFound, ErrMissing}
    /\ BuildDone =>
          \A i \in Positions :
              /\ Unresolved(i) => BatchOfPosition(i) = 0
              /\ (/\ ~Unresolved(i)
                  /\ \A j \in Positions :
                        skill_requests[j].skill \in RequestedDeps(i) => Unresolved(j))
                    => BatchOfPosition(i) <= 1

(* ---------------------------------------------------------------------- *)
(* C11                                                                     *)
(* ---------------------------------------------------------------------- *)
\* C11: execute_skills eventually returns to its caller for every request
\* list, whether each handler returns, raises or never completes on its own:
\* a call that has started always leads to the return of the ordered results.
C11_EventuallyReturns == (pc = "build") ~> (pc = "returned")

\* a call has returned although wait_for had to give up on a handler
C11_Witness ==
    /\ pc = "returned"
    /\ \E i \in DOMAIN handler : handler[i] = "cancelled"
    /\ Len(ordered_results) = Len(skill_requests)

(* ---------------------------------------------------------------------- *)
(* The intent recognizers: intent.py and intent_v2.py                      *)
(* ---------------------------------------------------------------------- *)
\* INTENTS, in the order of the dict
INTENTS == <<"query_metrics", "generate_report", "analyze_root_cause", "chat">>

\* Confidences are kept as multiples of 1/Unit, so that every confidence the
\* code computes (tenths, hundredths, and score/len for len 5, 6 and 7) is a
\* whole number.
Unit == 2100

\* a Python float: a number, or nan
Float(v) == [nan |-> FALSE, value |-> v]
NaN == [nan |-> TRUE, value |-> 0]

\* the literal p/100
Conf(p) == Float((p * Unit) \div 100)

\* a < b on floats: every comparison with nan is false
py_lt(a, b) == ~a.nan /\ ~b.nan /\ a.value < b.value

\* min(a, b) and max(a, b) of Python: the first argument unless the second
\* compares smaller (greater)
py_min(a, b) == IF py_lt(b, a) THEN b ELSE a
py_max(a, b) == IF py_lt(a, b) THEN b ELSE a

\* The keywords the recognizers and the chat reply look for in a message. A
\* message is the set of these it contains.
\*   chaxun 查询   tongji 统计   duoshao 多少   chakan 查看   xianshi 显示
\*   baobiao 报表  baogao 报告   daochu 导出    shengcheng 生成
\*   fenxi 分析    yuanyin 原因  weishenme 为什么  xiajiang 下降  yichang 异常
\*   zhibiao 指标  xiaoshoue 销售额  yonghushu 用户数  dingdanliang 订单量
\*   xiazai 下载   shangzhang 上涨  genyin 根因
\*   nihao 你好    xiexie 谢谢   zaijian 再见   haha 哈哈   en 嗯
\*   hai 嗨        ganxie 感谢   baibai 拜拜

\* intent_rules of _rule_based_approach (intent_v2.py:315-319)
intent_rules ==
    [query_metrics |-> {"chaxun", "tongji", "duoshao", "chakan", "xianshi"},
     generate_report |-> {"baobiao", "baogao", "daochu", "shengcheng"},
     analyze_root_cause |-> {"fenxi", "yuanyin", "weishenme", "xiajiang", "yichang"}]

\* the order in which the loop at intent_v2.py:324 visits intent_rules
RuleOrder == <<"query_metrics", "generate_report", "analyze_root_cause">>

\* keywords of _rule_based_recognition (intent.py:192-197)
keywords ==
    [query_metrics |-> {"chaxun", "zhibiao", "xiaoshoue", "yonghushu",
                        "dingdanliang", "duoshao", "tongji"},
     generate_report |-> {"baobiao", "daochu", "csv", "json", "shengcheng", "xiazai"},
     analyze_root_cause |-> {"yichang", "xiajiang", "shangzhang", "yuanyin",
                             "fenxi", "weishenme", "genyin"},
     chat |-> {"nihao", "xiexie", "zaijian", "haha", "en"}]

\* the words _generate_chat_response looks for (agent.py:361-367)
ChatWords == {"nihao", "hai", "hello", "hi", "xiexie", "ganxie", "zaijian", "baibai"}

Vocabulary ==
    UNION {intent_rules[k] : k \in DOMAIN intent_rules}
        \cup UNION {keywords[k] : k \in DOMAIN keywords} \cup ChatWords

\* sum(1 for kw in words if kw in message)
matches(message, words) == Cardinality(words \cap message)

\* a loop that lets a later intent with as many hits replace the best one
RECURSIVE best_match_last(_, _, _, _)
best_match_last(message, k, best_intent, max_matches) ==
    IF k > Len(RuleOrder) THEN [intent |-> best_intent, max_matches |-> max_matches]
    ELSE LET m == matches(message, intent_rules[RuleOrder[k]]) IN
         IF m >= max_matches /\ m > 0
         THEN best_match_last(message, k + 1, RuleOrder[k], m)
         ELSE best_match_last(message, k + 1, best_intent, max_matches)

\* the loop of intent_v2.py:321-328 from the k-th rule on
RECURSIVE best_match(_, _, _, _)
best_match(message, k, best_intent, max_matches) ==
    IF k > Len(RuleOrder) THEN [intent |-> best_intent, max_matches |-> max_matches]
    ELSE LET m == matches(message, intent_rules[RuleOrder[k]]) IN
         IF m > max_matches
         THEN best_match(message, k + 1, RuleOrder[k], m)
         ELSE best_match(message, k + 1, best_intent, max_matches)

\* a rule-based tier as confident as the structured one
rule_based_approach_high(message) ==
    [intent |-> best_match(message, 1, "chat", 0).intent,
     confidence |-> Conf(95),
     method |-> "rule_based"]

\* _rule_based_approach (intent_v2.py:305-339)
rule_based_approach(message) ==
    LET best == best_match(message, 1, "chat", 0) IN
    [intent |-> best.intent,
     confidence |-> IF best.max_matches > 0 THEN Conf(60) ELSE Conf(40),
     method |-> "rule_based"]

\* what a tier hands to its caller when it raises
Raised == [raised |-> TRUE]
Returned(r) == [raised |-> FALSE, result |-> r]

\* The provider's answers to the structured call: invoke raised, an error
\* code, no tool call, or a tool call whose arguments are JSON or are not.
ToolNames == {"query_metrics", "generate_report", "analyze_root_cause", "unknown_tool"}

FunctionCallingResponses ==
    {[raised |-> TRUE, code |-> 0, tool_calls |-> <<>>],
     [raised |-> FALSE, code |-> 500, tool_calls |-> <<>>],
     [raised |-> FALSE, code |-> 200, tool_calls |-> <<>>]}
    \cup {[raised |-> FALSE, code |-> 200,
           tool_calls |-> <<[name |-> n, arguments_json |-> j]>>]
            : n \in ToolNames, j \in BOOLEAN}

\* _function_calling_approach (intent_v2.py:87-171)
function_calling_approach(answer) ==
    IF answer.raised \/ answer.code # 200 THEN Raised
    ELSE IF answer.tool_calls = <<>>
    THEN Returned([intent |-> "chat", confidence |-> Conf(90),
                   method |-> "function_calling"])
    ELSE IF ~answer.tool_calls[1].arguments_json THEN Raised
    ELSE Returned([intent |-> answer.tool_calls[1].name, confidence |-> Conf(95),
                   method |-> "function_calling"])

\* The provider's answers to the two few-shot calls: the first names an
\* intent (or something else); the second, for the parameters, raises,
\* has an error status, has a content that is not JSON, or has JSON.
FewShotResponses ==
    [raised : BOOLEAN, code : {200, 500},
     content : {"query_metrics", "chat", "something else"},
     params : {"raised", "error_status", "malformed", "json"}]

\* _identify_intent_via_fewshot (intent_v2.py:253-259)
identify_intent_via_fewshot(answer) ==
    IF answer.code = 200 /\ \E k \in DOMAIN INTENTS : INTENTS[k] = answer.content
    THEN answer.content
    ELSE "chat"

\* _prompt_engineering_approach (intent_v2.py:173-214)
prompt_engineering_approach(answer) ==
    IF answer.raised THEN Raised
    ELSE LET intent == identify_intent_via_fewshot(answer) IN
         IF intent = "chat"
         THEN Returned([intent |-> "chat", confidence |-> Conf(80),
                        method |-> "prompt_engineering"])
         ELSE IF answer.params = "raised" THEN Raised
         \* lines 296-303: an error status and a content that is not JSON
         \* both give the empty parameters
         ELSE Returned([intent |-> intent, confidence |-> Conf(85),
                        method |-> "prompt_engineering"])

\* max(scores, key=scores.get) of intent.py:212: the first intent of the dict
\* with the highest score
first_max(message, k, max_score) ==
    /\ matches(message, keywords[INTENTS[k]]) = max_score
    /\ \A j \in 1..(k - 1) : matches(message, keywords[INTENTS[j]]) # max_score

\* _rule_based_recognition (intent.py:174-223)
rule_based_recognition(message) ==
    LET scores == [k \in DOMAIN INTENTS |-> matches(message, keywords[INTENTS[k]])]
        max_score == CHOOSE v \in Range(scores) : \A w \in Range(scores) : w <= v
        intent == INTENTS[CHOOSE k \in DOMAIN INTENTS : first_max(message, k, max_score)]
    IN
    IF max_score = 0
    THEN [intent |-> "chat", confidence |-> Conf(30), reasoning |-> "keywords"]
    ELSE [intent |-> intent,
          confidence |->
              py_min(Conf(90),
                     Float(Unit \div 2
                           + (max_score * ((4 * Unit) \div 10))
                                 \div Cardinality(keywords[intent]))),
          reasoning |-> "keywords"]

\* The "confidence" of the provider's JSON: a number, nan, something float()
\* rejects (a word, null), or no such key.
ProviderConfidences ==
    {[kind |-> "number", value |-> v] : v \in {0 - Unit, 0, Unit \div 2, Unit, 5 * Unit}}
    \cup {[kind |-> k, value |-> 0] : k \in {"nan", "text", "missing"}}

\* float(result.get("confidence", 0.5)) of intent.py:158, where it returns
py_float(c) ==
    CASE c.kind = "number" -> Float(c.value)
      [] c.kind = "nan" -> NaN
      [] OTHER -> Float(Unit \div 2)

\* the provider's confidence taken as it comes
clamp_none(c) == c

\* intent.py:159
clamp(c) == py_max(Float(0), py_min(Float(Unit), c))

\* The provider's answers to the call of _llm_recognition: invoke raised, an
\* error code, a text that is no JSON, or a JSON object.
LlmResponses ==
    {[raised |-> TRUE, code |-> 0, json |-> FALSE, intent |-> "",
      confidence |-> [kind |-> "missing", value |-> 0]],
     [raised |-> FALSE, code |-> 500, json |-> FALSE, intent |-> "",
      confidence |-> [kind |-> "missing", value |-> 0]],
     [raised |-> FALSE, code |-> 200, json |-> FALSE, intent |-> "",
      confidence |-> [kind |-> "missing", value |-> 0]]}
    \cup {[raised |-> FALSE, code |-> 200, json |-> TRUE, intent |-> n, confidence |-> c]
            : n \in {"query_metrics", "chat", "something else"},
              c \in ProviderConfidences}

\* _llm_recognition (intent.py:84-172)
llm_recognition(answer) ==
    IF \/ answer.raised
       \/ answer.code # 200
       \/ ~answer.json
       \/ ~\E k \in DOMAIN INTENTS : INTENTS[k] = answer.intent
       \/ answer.confidence.kind = "text"
    THEN Raised
    ELSE Returned([intent |-> answer.intent,
                   confidence |-> clamp(py_float(answer.confidence)),
                   reasoning |-> "llm"])

\* get_skill_mapping (intent.py:225-242)
get_skill_mapping(intent) ==
    CASE intent = "query_metrics" -> <<"QueryMetricsSkill">>
      [] intent = "generate_report" -> <<"GenerateReportSkill">>
      [] intent = "analyze_root_cause" -> <<"AnalyzeRootCauseSkill">>
      [] OTHER -> <<>>

(* ---------------------------------------------------------------------- *)
(* recognize and recognize_with_params as processes                        *)
(* ---------------------------------------------------------------------- *)
MaxWords == 2    \* most keywords in a message

RECURSIVE MessagesUpTo(_)
MessagesUpTo(n) ==
    IF n = 0 THEN {{}}
    ELSE MessagesUpTo(n - 1)
            \cup {m \cup {w} : m \in MessagesUpTo(n - 1), w \in Vocabulary}

Messages == MessagesUpTo(MaxWords)

\* max_concurrency of an executor constructed without it
DefaultMaxConcurrency == 5

\* a recognizer of either class, with or without an API key, and a message
InitIntent ==
    /\ ExecutorInit(InitialGraph, SkillRegistry, DefaultMaxConcurrency)
    /\ recognizer \in {"IntentRecognizer", "IntentRecognizerV2"}
    /\ client_available \in BOOLEAN
    /\ user_message \in Messages
    /\ rpc = "idle"
    /\ attempted = <<>>
    /\ response = NoResponse
    /\ result = NoRecognition
    /\ AgentIdle("AgentGraph", "run")

executorVars == <<dependency_graph, max_concurrency, registry, pc,
                  skill_requests, buildVars, execVars>>

\* the call enters a tier
Enter(tier) == Append(attempted, [tier |-> tier, outcome |-> "running"])

\* the tier the call is in returns or raises
Close(outcome) ==
    [attempted EXCEPT ![Len(attempted)] = [@ EXCEPT !.outcome = outcome]]

\* recognize, lines 73-78 of intent.py
Recognize ==
    /\ rpc = "idle"
    /\ recognizer = "IntentRecognizer"
    /\ IF client_available
       THEN /\ rpc' = "llm"
            /\ attempted' = Enter("llm")
            /\ UNCHANGED result
       ELSE /\ rpc' = "returned"
            /\ attempted' = <<[tier |-> "rule_based", outcome |-> "returned"]>>
            /\ result' = rule_based_recognition(user_message)
    /\ UNCHANGED <<executorVars, agentVars, recognizer, client_available, user_message, response>>

\* line 78 of intent.py: _llm_recognition returned
LlmRecognitionReturns ==
    /\ rpc = "llm"
    /\ \E answer \in LlmResponses :
        /\ ~llm_recognition(answer).raised
        /\ response' = answer
        /\ result' = llm_recognition(answer).result
    /\ attempted' = Close("returned")
    /\ rpc' = "returned"
    /\ UNCHANGED <<executorVars, agentVars, recognizer, client_available, user_message>>

\* lines 79-82 of intent.py: _llm_recognition raised
LlmRecognitionRaises ==
    /\ rpc = "llm"
    /\ \E answer \in LlmResponses :
        /\ llm_recognition(answer).raised
        /\ response' = answer
    /\ attempted' = Append(Close("raised"), [tier |-> "rule_based", outcome |-> "returned"])
    /\ result' = rule_based_recognition(user_message)
    /\ rpc' = "returned"
    /\ UNCHANGED <<executorVars, agentVars, recognizer, client_available, user_message>>

\* every failure answered by the rule-based tier at once
fallback_skip(tier, available) == "rule_based"

\* lines 70-83 of intent_v2.py: the tier tried after one that raised
fallback(tier, available) ==
    IF tier = "function_calling" /\ available THEN "prompt_engineering"
    ELSE "rule_based"

\* recognize_with_params, lines 65-67 (82-85 without a client) of intent_v2.py
RecognizeWithParams ==
    /\ rpc = "idle"
    /\ recognizer = "IntentRecognizerV2"
    /\ IF client_available
       THEN /\ rpc' = "function_calling"
            /\ attempted' = Enter("function_calling")
            /\ UNCHANGED result
       ELSE /\ rpc' = "returned"
            /\ attempted' = <<[tier |-> "rule_based", outcome |-> "returned"]>>
            /\ result' = rule_based_approach(user_message)
    /\ UNCHANGED <<executorVars, agentVars, recognizer, client_available, user_message, response>>

\* the call leaves a tier that raised: lines 70-76 or 79-85 of intent_v2.py
FallBack(tier) ==
    LET next == fallback(tier, client_available) IN
    IF next = "rule_based"
    THEN /\ attempted' = Append(Close("raised"),
                                [tier |-> "rule_based", outcome |-> "returned"])
         /\ result' = rule_based_approach(user_message)
         /\ rpc' = "returned"
    ELSE /\ attempted' = Append(Close("raised"), [tier |-> next, outcome |-> "running"])
         /\ rpc' = next
         /\ UNCHANGED result

\* lines 67-69 of intent_v2.py: the structured tier returned
FunctionCallingReturns ==
    /\ rpc = "function_calling"
    /\ \E answer \in FunctionCallingResponses :
        /\ ~function_calling_approach(answer).raised
        /\ response' = answer
        /\ result' = function_calling_approach(answer).result
    /\ attempted' = Close("returned")
    /\ rpc' = "returned"
    /\ UNCHANGED <<executorVars, agentVars, recognizer, client_available, user_message>>

\* lines 70-76 of intent_v2.py: the structured tier raised
FunctionCallingRaises ==
    /\ rpc = "function_calling"
    /\ \E answer \in FunctionCallingResponses :
        /\ function_calling_approach(answer).raised
        /\ response' = answer
    /\ FallBack("function_calling")
    /\ UNCHANGED <<executorVars, agentVars, recognizer, client_available, user_message>>

\* lines 76-78 of intent_v2.py: the few-shot tier returned
PromptEngineeringReturns ==
    /\ rpc = "prompt_engineering"
    /\ \E answer \in FewShotResponses :
        /\ ~prompt_engineering_approach(answer).raised
        /\ response' = answer
        /\ result' = prompt_engineering_approach(answer).result
    /\ attempted' = Close("returned")
    /\ rpc' = "returned"
    /\ UNCHANGED <<executorVars, agentVars, recognizer, client_available, user_message>>

\* the exception of the few-shot tier handed on to the caller
PromptEngineeringRaisesEscapes ==
    /\ rpc = "prompt_engineering"
    /\ \E answer \in FewShotResponses :
        /\ prompt_engineering_approach(answer).raised
        /\ response' = answer
    /\ attempted' = Close("raised")
    /\ rpc' = "raised"
    /\ UNCHANGED <<executorVars, agentVars, recognizer, client_available, user_message, result>>

\* lines 79-85 of intent_v2.py: the few-shot tier raised
PromptEngineeringRaises ==
    /\ rpc = "prompt_engineering"
    /\ \E answer \in FewShotResponses :
        /\ prompt_engineering_approach(answer).raised
        /\ response' = answer
    /\ FallBack("prompt_engineering")
    /\ UNCHANGED <<executorVars, agentVars, recognizer, client_available, user_message>>

NextIntent ==
    \/ Recognize
    \/ LlmRecognitionReturns
    \/ LlmRecognitionRaises
    \/ RecognizeWithParams
    \/ FunctionCallingReturns
    \/ FunctionCallingRaises
    \/ PromptEngineeringReturns
    \/ PromptEngineeringRaises

SpecIntent == InitIntent /\ [][NextIntent]_vars

(* ---------------------------------------------------------------------- *)
(* C12                                                                     *)
(* ---------------------------------------------------------------------- *)
Tier(t, o) == [tier |-> t, outcome |-> o]

\* C12: recognize_with_params attempts the tiers in the order structured,
\* few-shot, rule-based: the first tier entered is the structured one if a
\* client is available and the rule-based one if not; the few-shot tier is
\* entered only right after the structured tier raised, the rule-based tier
\* only right after the few-shot tier raised or without a client; and a tier
\* that returned is the last one entered.
C12_TierOrder ==
    recognizer = "IntentRecognizerV2" =>
        \A k \in DOMAIN attempted :
            /\ k = 1 =>
                attempted[k].tier =
                    IF client_available THEN "function_calling" ELSE "rule_based"
            /\ attempted[k].tier = "function_calling" => k = 1
            /\ attempted[k].tier = "prompt_engineering" =>
                k > 1 /\ attempted[k - 1] = Tier("function_calling", "raised")
            /\ attempted[k].tier = "rule_based" =>
                \/ k = 1 /\ ~client_available
                \/ k > 1 /\ attempted[k - 1] = Tier("prompt_engineering", "raised")
            /\ attempted[k].outcome = "returned" => k = Len(attempted)
            /\ k < Len(attempted) => attempted[k].outcome = "raised"

\* the structured tier raised and the few-shot tier returned the result
C12_Witness ==
    /\ recognizer = "IntentRecognizerV2"
    /\ rpc = "returned"
    /\ attempted = <<Tier("function_calling", "raised"),
                     Tier("prompt_engineering", "returned")>>
    /\ result.method = "prompt_engineering"

(* ---------------------------------------------------------------------- *)
(* C13                                                                     *)
(* ---------------------------------------------------------------------- *)
\* C13: recognize_with_params never raises and, once it has ended, has
\* returned a classification result; when the structured tier raised and the
\* few-shot tier raised too, the result is the one of the rule-based tier
\* and its method field is rule_based.
C13_NeverRaises ==
    recognizer = "IntentRecognizerV2" =>
        /\ rpc # "raised"
        /\ rpc = "returned" =>
            /\ result # NoRecognition
            /\ result.method \in {"function_calling", "prompt_engineering", "rule_based"}
            /\ attempted[Len(attempted)].outcome = "returned"
        /\ (/\ Len(attempted) >= 2
            /\ attempted[1] = Tier("function_calling", "raised")
            /\ attempted[2] = Tier("prompt_engineering", "raised")) =>
            /\ rpc = "returned"
            /\ result = rule_based_approach(user_message)
            /\ result.method = "rule_based"

\* both provider tiers raised and the rule-based tier classified a message
\* that holds one of its keywords
C13_Witness ==
    /\ recognizer = "IntentRecognizerV2"
    /\ rpc = "returned"
    /\ attempted = <<Tier("function_calling", "raised"),
                     Tier("prompt_engineering", "raised"),
                     Tier("rule_based", "returned")>>
    /\ result.method = "rule_based"
    /\ result.intent = "generate_report"

(* ---------------------------------------------------------------------- *)
(* C14                                                                     *)
(* ---------------------------------------------------------------------- *)
InUnitInterval(c) == ~c.nan /\ 0 <= c.value /\ c.value <= Unit

\* C14: every classification result that recognize or recognize_with_params
\* returned, from any tier, has a confidence within [0,1], whatever
\* confidence the provider gave: below 0, above 1, nan or not a number.
C14_ConfidenceInRange ==
    rpc = "returned" => InUnitInterval(result.confidence)

\* recognize returned the result of the LLM tier although the provider gave
\* a confidence of 5
C14_Witness ==
    /\ recognizer = "IntentRecognizer"
    /\ rpc = "returned"
    /\ attempted = <<Tier("llm", "returned")>>
    /\ response.confidence = [kind |-> "number", value |-> 5 * Unit]
    /\ result.confidence = Float(Unit)

(* ---------------------------------------------------------------------- *)
(* C15                                                                     *)
(* ---------------------------------------------------------------------- *)
\* the confidences each tier of recognize_with_params can return
FunctionCallingConfidences ==
    {function_calling_approach(a).result.confidence :
        a \in {b \in FunctionCallingResponses : ~function_calling_approach(b).raised}}

FewShotConfidences ==
    {prompt_engineering_approach(a).result.confidence :
        a \in {b \in FewShotResponses : ~prompt_engineering_approach(b).raised}}

RuleBasedConfidences == {rule_based_approach(m).confidence : m \in Messages}

\* C15: the confidence bands of the tiers do not overlap: a result of the
\* structured tier is more confident than anything the few-shot tier can
\* return, a result of the few-shot tier is less confident than anything the
\* structured tier and more confident than anything the rule-based tier can
\* return, and a result of the rule-based tier is less confident than
\* anything the few-shot tier can return, chat results included.
C15_BandsDisjoint ==
    (recognizer = "IntentRecognizerV2" /\ rpc = "returned") =>
        /\ result.method = "function_calling" =>
            \A c \in FewShotConfidences : py_lt(c, result.confidence)
        /\ result.method = "prompt_engineering" =>
            /\ \A c \in FunctionCallingConfidences : py_lt(result.confidence, c)
            /\ \A c \in RuleBasedConfidences : py_lt(c, result.confidence)
        /\ result.method = "rule_based" =>
            \A c \in FewShotConfidences : py_lt(result.confidence, c)

\* the few-shot tier returned chat, the least confident of its results, and
\* each tier has a chat and a non-chat confidence
C15_Witness ==
    /\ recognizer = "IntentRecognizerV2"
    /\ rpc = "returned"
    /\ result.method = "prompt_engineering"
    /\ result.intent = "chat"
    /\ Cardinality(FunctionCallingConfidences) = 2
    /\ Cardinality(FewShotConfidences) = 2
    /\ Cardinality(RuleBasedConfidences) = 2

(* ---------------------------------------------------------------------- *)
(* AgentGraph: the graph of agent.py and its nodes                         *)
(* ---------------------------------------------------------------------- *)
\* the nodes added at agent.py:60-62
Stages == {"intent_recognition", "skill_execution", "response_generation"}

\* a graph whose last node leads back to the first
next_node_loop(n) ==
    CASE n = "intent_recognition" -> "skill_execution"
      [] n = "skill_execution" -> "response_generation"
      [] OTHER -> "intent_recognition"

\* the edges added at agent.py:68-70
next_node(n) ==
    CASE n = "intent_recognition" -> "skill_execution"
      [] n = "skill_execution" -> "response_generation"
      [] OTHER -> "END"

\* the node returned st: the graph starts the node its edge leads to; a
\* graph run by astream yields the node's output first, which chat.py:196
\* sends as a state_update event
Goto(st) ==
    /\ state' = st
    /\ node' = next_node(node)
    /\ executed' = IF next_node(node) \in Stages
                   THEN Append(executed, next_node(node))
                   ELSE executed
    /\ events' = IF spc = "iterating" THEN Append(events, "state_update") ELSE events

\* agent.py:393-410: run builds the initial state and starts the graph at
\* its entry point (agent.py:65)
StartRun ==
    /\ node \in {"idle", "END"}
    /\ state' = initial_state
    /\ node' = "intent_recognition"
    /\ executed' = <<"intent_recognition">>
    /\ UNCHANGED <<executing, invoked, failure, final_state>>

\* what the executor's and the recognizers' variables are to the agent
agentFrame == <<executorVars, recognizer, client_available, user_message,
                rpc, attempted, response, result, agent, entry>>

\* a caller awaits agent.run(...)
Run ==
    /\ entry = "run"
    /\ node = "idle"
    /\ StartRun
    /\ UNCHANGED <<agentFrame, spc, events>>

\* the results recognize (intent.py:52-82) can return for a message
recognize_results(message, available) ==
    IF available
    THEN {llm_recognition(a).result :
              a \in {b \in LlmResponses : ~llm_recognition(b).raised}}
         \cup {rule_based_recognition(message)}
    ELSE {rule_based_recognition(message)}

\* An IntentRecognizer whose get_skill_mapping gives several skills for an
\* intent, one of them a skill the registry does not hold.
MultiSkillRecognizer == "MultiSkillRecognizer"

multi_skill_mapping(intent) ==
    CASE intent = "query_metrics" -> <<"QueryMetricsSkill">>
      [] intent = "generate_report" -> <<"ExportSkill", "GenerateReportSkill">>
      [] intent = "analyze_root_cause" -> <<"QueryMetricsSkill", "AnalyzeRootCauseSkill">>
      [] OTHER -> <<>>

\* self.intent_recognizer.get_skill_mapping(intent) at agent.py:100
skill_mapping(rec, intent) ==
    IF rec = MultiSkillRecognizer THEN multi_skill_mapping(intent)
    ELSE get_skill_mapping(intent)

\* _intent_recognition_node, lines 90-115 and 123
IntentRecognitionNode ==
    /\ node = "intent_recognition"
    /\ recognizer # "IntentRecognizerV2"
    /\ \E r \in recognize_results(user_message, client_available) :
        Goto([state EXCEPT !.intent = r.intent,
                           !.intent_confidence = r.confidence,
                           !.selected_skills = skill_mapping(recognizer, r.intent),
                           !.messages = Append(@, "intent")])
    /\ UNCHANGED <<agentFrame, executing, invoked, failure, final_state, spc>>

\* _intent_recognition_node, lines 117-123: the recognizer raised; one that
\* has no recognize(), as IntentRecognizerV2, raises AttributeError
IntentRecognitionFails ==
    /\ node = "intent_recognition"
    /\ recognizer = "IntentRecognizerV2"
    /\ Goto([state EXCEPT !.intent = "chat",
                          !.intent_confidence = Float(0),
                          !.selected_skills = <<>>])
    /\ UNCHANGED <<agentFrame, executing, invoked, failure, final_state, spc>>

\* the skip left out of the message history
SkillExecutionSkipSilent ==
    /\ node = "skill_execution"
    /\ state.selected_skills = <<>>
    /\ Goto(state)
    /\ UNCHANGED <<agentFrame, executing, invoked, failure, final_state, spc>>

\* _skill_execution_node, lines 141-146
SkillExecutionSkip ==
    /\ node = "skill_execution"
    /\ state.selected_skills = <<>>
    /\ Goto([state EXCEPT !.messages = Append(@, "skip")])
    /\ UNCHANGED <<agentFrame, executing, invoked, failure, final_state, spc>>

\* the skill the loop at agent.py:149 is at
CurrentSkill == state.selected_skills[Len(state.skill_results) + 1]

\* a loop that ends at the first skill that failed
AfterSkillStops(ok, msgs) ==
    LET st == [state EXCEPT
                  !.skill_results = Append(@, [skill_name |-> CurrentSkill,
                                               success |-> ok]),
                  !.messages = @ \o msgs]
    IN IF Len(st.skill_results) = Len(st.selected_skills) \/ ~ok
       THEN Goto(st)
       ELSE state' = st /\ UNCHANGED <<node, executed, events>>

\* lines 179-194 or 204-210: the result of the current skill is appended, and
\* after the last skill the node returns (line 212)
AfterSkill(ok, msgs) ==
    LET st == [state EXCEPT
                  !.skill_results = Append(@, [skill_name |-> CurrentSkill,
                                               success |-> ok]),
                  !.messages = @ \o msgs]
    IN IF Len(st.skill_results) = Len(st.selected_skills)
       THEN Goto(st)
       ELSE state' = st /\ UNCHANGED <<node, executed, events>>

\* lines 149-168: the skill is looked up and its execute() is called
SkillExecutionStart ==
    /\ node = "skill_execution"
    /\ executing = ""
    /\ Len(state.skill_results) < Len(state.selected_skills)
    /\ IF CurrentSkill \in registry.skills
       THEN /\ executing' = CurrentSkill
            /\ invoked' = Append(invoked, CurrentSkill)
            /\ UNCHANGED <<state, node, executed, events>>
       ELSE /\ AfterSkill(FALSE, <<>>)
            /\ UNCHANGED <<executing, invoked>>
    /\ UNCHANGED <<agentFrame, failure, final_state, spc>>

\* lines 168-200: execute() returned a SkillOutput
SkillReturns ==
    /\ node = "skill_execution"
    /\ executing # ""
    /\ \E ok \in BOOLEAN :
        AfterSkill(ok, IF ok THEN <<"skill_ok">> ELSE <<"skill_failed">>)
    /\ executing' = ""
    /\ UNCHANGED <<agentFrame, invoked, failure, final_state, spc>>

\* lines 202-210: execute() raised
SkillRaises ==
    /\ node = "skill_execution"
    /\ executing # ""
    /\ AfterSkill(FALSE, <<>>)
    /\ executing' = ""
    /\ UNCHANGED <<agentFrame, invoked, failure, final_state, spc>>

\* _generate_chat_response (agent.py:343-371)
generate_chat_response(message) ==
    IF message \cap {"nihao", "hai", "hello", "hi"} # {} THEN "greeting"
    ELSE IF message \cap {"xiexie", "ganxie"} # {} THEN "welcome"
    ELSE IF message \cap {"zaijian", "baibai"} # {} THEN "goodbye"
    ELSE "help"

Part(text, skill) == [text |-> text, skill |-> skill]

\* lines 233-245: "\n\n".join of one part per successful result
summary(skill_results) ==
    LET successful_results == SelectSeq(skill_results, LAMBDA r : r.success) IN
    Text([k \in DOMAIN successful_results |->
             Part("succeeded", successful_results[k].skill_name)])

\* the summary made whether or not a result succeeded
response_generation_any(st, message) ==
    IF st.skill_results # <<>> THEN summary(st.skill_results)
    ELSE Text(<<Part(generate_chat_response(message), "")>>)

\* _response_generation_node, lines 231-254
response_generation(st, message) ==
    IF st.skill_results # <<>>
    THEN IF \E k \in DOMAIN st.skill_results : st.skill_results[k].success
         THEN summary(st.skill_results)
         ELSE Text(<<Part("failed", "")>>)
    ELSE Text(<<Part(generate_chat_response(message), "")>>)

\* _response_generation_node, lines 229-265
ResponseGenerationNode ==
    /\ node = "response_generation"
    /\ Goto([state EXCEPT !.final_response = response_generation(state, user_message),
                          !.messages = Append(@, "response")])
    /\ UNCHANGED <<agentFrame, executing, invoked, failure, final_state, spc>>

\* a success flag that tells whether the classifier and every skill did
\* their work
RunReturnsStrict ==
    /\ node = "END"
    /\ spc # "iterating"
    /\ node' = "returned"
    /\ final_state' =
          [intent |-> state.intent,
           intent_confidence |-> state.intent_confidence,
           selected_skills |-> state.selected_skills,
           skill_results |-> state.skill_results,
           messages |-> state.messages,
           final_response |-> state.final_response,
           metadata |->
               [success |->
                   /\ state.intent_confidence # Float(0)
                   /\ \A k \in DOMAIN state.skill_results :
                       state.skill_results[k].success]]
    /\ UNCHANGED <<agentFrame, state, executed, executing, invoked, failure,
                   spc, events>>

\* run, lines 410-424: ainvoke returned the final state
RunReturns ==
    /\ node = "END"
    /\ spc # "iterating"
    /\ node' = "returned"
    /\ final_state' =
          [intent |-> state.intent,
           intent_confidence |-> state.intent_confidence,
           selected_skills |-> state.selected_skills,
           skill_results |-> state.skill_results,
           messages |-> state.messages,
           final_response |-> state.final_response,
           metadata |-> [success |-> TRUE]]
    /\ UNCHANGED <<agentFrame, state, executed, executing, invoked, failure,
                   spc, events>>

\* the exception of ainvoke handed on to the caller of run
GraphRaisesEscapes ==
    /\ node \in Stages
    /\ spc # "iterating"
    /\ node' = "raised"
    /\ failure' = "GraphError"
    /\ executing' = ""
    /\ UNCHANGED <<agentFrame, state, executed, invoked, final_state, spc, events>>

\* run, lines 426-442: ainvoke raised while the graph was executing
GraphRaises ==
    /\ node \in Stages
    /\ spc # "iterating"
    /\ node' = "returned"
    /\ failure' = "GraphError"
    /\ executing' = ""
    /\ \E msgs \in {<<"human">>, state.messages} :  \* the list of line 400, as the nodes left it
        final_state' =
          [intent |-> "error",
           intent_confidence |-> Float(0),
           selected_skills |-> <<>>,
           skill_results |-> <<>>,
           messages |-> msgs,
           final_response |-> Text(<<Part("sorry", "GraphError")>>),
           metadata |-> [success |-> FALSE, error |-> "GraphError"]]
    /\ UNCHANGED <<agentFrame, state, executed, invoked, spc, events>>

(* ---------------------------------------------------------------------- *)
(* chat_stream: event_generator of chat.py                                 *)
(* ---------------------------------------------------------------------- *)
MaxAgentWords == 1   \* most keywords in a message given to the agent

\* AgentGraph, whose stream_events is a plain generator (agent.py:444-499),
\* and an agent whose stream_events can be iterated with async for and
\* yields what the astream of the graph yields (agent.py:481-487)
Agents == {"AgentGraph", "AsyncStreamAgent"}

Emit(e) == events' = Append(events, e)

streamFrame == <<agentFrame, state, node, executed, executing, invoked,
                 failure, final_state>>

\* chat.py:171-175: the generator starts and yields the session event
ChatStream ==
    /\ entry = "chat_stream"
    /\ spc = "idle"
    /\ Emit("session")
    /\ spc' = "iterating"
    /\ UNCHANGED streamFrame

\* chat.py:191 and 227-230: async for over the generator that AgentGraph's
\* stream_events returns raises TypeError
StreamTypeError ==
    /\ spc = "iterating"
    /\ agent = "AgentGraph"
    /\ Emit("error")
    /\ spc' = "closed"
    /\ UNCHANGED streamFrame

\* chat.py:191-194 and agent.py:464-482: the first event of the agent's
\* stream is asked for, and astream starts the graph on a state of its own
StreamEvents ==
    /\ spc = "iterating"
    /\ agent = "AsyncStreamAgent"
    /\ node = "idle"
    /\ StartRun
    /\ UNCHANGED <<agentFrame, spc, events>>

\* an error event after which the generator goes on
StreamRaisesContinues ==
    /\ spc = "iterating"
    /\ agent = "AsyncStreamAgent"
    /\ node \in Stages
    /\ events[Len(events)] # "error"
    /\ Emit("error")
    /\ UNCHANGED <<streamFrame, spc>>

\* chat.py:191 and 227-230: the agent's stream raised while the graph was
\* executing, which ends the graph
StreamRaises ==
    /\ spc = "iterating"
    /\ agent = "AsyncStreamAgent"
    /\ node \in Stages
    /\ Emit("error")
    /\ spc' = "closed"
    /\ node' = "idle"
    /\ executing' = ""
    /\ UNCHANGED <<agentFrame, state, executed, invoked, failure, final_state>>

\* chat.py:191-202: the agent's stream ended with the graph, and agent.run
\* is awaited, which starts the graph again on a new initial state
StreamExhausted ==
    /\ spc = "iterating"
    /\ agent = "AsyncStreamAgent"
    /\ node = "END"
    /\ StartRun
    /\ spc' = "running"
    /\ UNCHANGED <<agentFrame, events>>

\* chat.py:199-225: run returned, the session was updated and the complete
\* event is yielded
StreamComplete ==
    /\ spc = "running"
    /\ node = "returned"
    /\ Emit("complete")
    /\ spc' = "closed"
    /\ UNCHANGED streamFrame

\* chat.py:205-212 and 227-230: update_session raised
UpdateSessionRaises ==
    /\ spc = "running"
    /\ node = "returned"
    /\ Emit("error")
    /\ spc' = "closed"
    /\ UNCHANGED streamFrame

\* an agent and a recognizer as get_agent_components (chat.py:59-69) or a
\* test makes them, a message, and a caller of run or of chat_stream
InitAgent ==
    /\ ExecutorInit(InitialGraph, SkillRegistry, DefaultMaxConcurrency)
    /\ recognizer \in {"IntentRecognizer", "IntentRecognizerV2", MultiSkillRecognizer}
    /\ client_available \in BOOLEAN
    /\ user_message \in MessagesUpTo(MaxAgentWords)
    /\ rpc = "idle"
    /\ attempted = <<>>
    /\ response = NoResponse
    /\ result = NoRecognition
    /\ \E a \in Agents : \E e \in {"run", "chat_stream"} :
        /\ e = "run" => a = "AgentGraph"
        /\ AgentIdle(a, e)

NextAgent ==
    \/ Run
    \/ IntentRecognitionNode
    \/ IntentRecognitionFails
    \/ SkillExecutionSkip
    \/ SkillExecutionStart
    \/ SkillReturns
    \/ SkillRaises
    \/ ResponseGenerationNode
    \/ RunReturns
    \/ GraphRaises
    \/ ChatStream
    \/ StreamTypeError
    \/ StreamEvents
    \/ StreamRaises
    \/ StreamExhausted
    \/ StreamComplete
    \/ UpdateSessionRaises

SpecAgent == InitAgent /\ [][NextAgent]_vars

(* ---------------------------------------------------------------------- *)
(* C16                                                                     *)
(* ---------------------------------------------------------------------- *)
StageOrder == <<"intent_recognition", "skill_execution", "response_generation">>

\* C16: in every run the stages are started in the order intent resolution,
\* skill execution, response synthesis, each at most once and never an
\* earlier one again; the only stage executing is the one started last, a
\* skill handler is awaited only inside skill execution, and a run whose
\* graph ended has gone through all three.
C16_StagesInOrder ==
    /\ Len(executed) <= Len(StageOrder)
    /\ \A k \in DOMAIN executed : executed[k] = StageOrder[k]
    /\ node \in Stages => executed # <<>> /\ node = executed[Len(executed)]
    /\ executing # "" => node = "skill_execution"
    /\ node = "END" => executed = StageOrder
    /\ (node = "returned" /\ failure = "") => executed = StageOrder

\* a run that called a skill handler has returned after its three stages
C16_Witness ==
    /\ node = "returned"
    /\ failure = ""
    /\ executed = StageOrder
    /\ invoked # <<>>

(* ---------------------------------------------------------------------- *)
(* C17                                                                     *)
(* ---------------------------------------------------------------------- *)
NonEmpty(text) == text.set /\ text.parts # <<>>

\* C17: run never raises to its caller: every run that has ended returned a
\* result that carries a success flag, true exactly if the graph raised
\* nothing; if the graph raised, the result has success = false, the error
\* string of the exception and the apologetic final_response.
C17_RunNeverRaises ==
    /\ node # "raised"
    /\ node = "returned" =>
        /\ final_state.metadata.success \in BOOLEAN
        /\ final_state.metadata.success <=> failure = ""
    /\ (node = "returned" /\ failure # "") =>
        /\ final_state.metadata = [success |-> FALSE, error |-> failure]
        /\ final_state.final_response = Text(<<Part("sorry", failure)>>)
        /\ NonEmpty(final_state.final_response)
        /\ final_state.intent = "error"

\* the graph raised while a skill handler was awaited and run returned the
\* failure result
C17_Witness ==
    /\ node = "returned"
    /\ failure = "GraphError"
    /\ executed = <<"intent_recognition", "skill_execution">>
    /\ invoked # <<>>
    /\ ~final_state.metadata.success

(* ---------------------------------------------------------------------- *)
(* C18                                                                     *)
(* ---------------------------------------------------------------------- *)
\* C18: when the resolved intent maps to an empty skill list, the skill
\* execution stage invokes no skill handler, leaves skill_results empty and
\* records the skip in the message log; a run that then ends without an
\* exception of the graph returns intent chat, no skills used and a
\* non-empty final response. (In the first execution of the graph for a
\* request no handler has been invoked at all; the log of a later execution
\* still holds the invocations of the earlier one.)
C18_SkipLeavesNoTrace ==
    /\ (Len(executed) = Len(StageOrder) /\ state.selected_skills = <<>>) =>
        /\ spc \in {"idle", "iterating"} => invoked = <<>>
        /\ executing = ""
        /\ state.skill_results = <<>>
        /\ \E k \in DOMAIN state.messages : state.messages[k] = "skip"
    /\ (node = "returned" /\ failure = "" /\ state.selected_skills = <<>>) =>
        /\ final_state.intent = "chat"
        /\ final_state.selected_skills = <<>>
        /\ final_state.skill_results = <<>>
        /\ NonEmpty(final_state.final_response)

\* a greeting was resolved to chat by the keyword rules and answered with
\* the greeting, the skip being the third message of the log
C18_Witness ==
    /\ node = "returned"
    /\ failure = ""
    /\ user_message = {"nihao"}
    /\ final_state.intent = "chat"
    /\ final_state.selected_skills = <<>>
    /\ final_state.messages = <<"human", "intent", "skip", "response">>
    /\ final_state.final_response = Text(<<Part("greeting", "")>>)

(* ---------------------------------------------------------------------- *)
(* C19                                                                     *)
(* ---------------------------------------------------------------------- *)
\* C19: after response synthesis, final_response summarises the successful
\* results if at least one skill result succeeded, is the generic failure
\* message if there are results and all failed, and is the conversational
\* reply if there are no results; it is set and non-empty, and so is the
\* final_response of every run that returned.
C19_ResponseCases ==
    /\ (node \in {"END", "returned"} /\ failure = "") =>
        LET rs == state.skill_results
            succeeded == SelectSeq(rs, LAMBDA r : r.success)
        IN
        /\ succeeded # <<>> =>
            /\ state.final_response.set
            /\ Len(state.final_response.parts) = Len(succeeded)
            /\ \A k \in DOMAIN succeeded :
                state.final_response.parts[k] = Part("succeeded", succeeded[k].skill_name)
        /\ (rs # <<>> /\ succeeded = <<>>) =>
            state.final_response = Text(<<Part("failed", "")>>)
        /\ rs = <<>> =>
            /\ state.final_response.set
            /\ Len(state.final_response.parts) = 1
            /\ state.final_response.parts[1].text \in {"greeting", "welcome", "goodbye", "help"}
        /\ NonEmpty(state.final_response)
    /\ node = "returned" => NonEmpty(final_state.final_response)

\* the only skill of the run failed and the run returned the generic
\* failure message
C19_Witness ==
    /\ node = "returned"
    /\ failure = ""
    /\ invoked = <<"QueryMetricsSkill">>
    /\ state.skill_results = <<[skill_name |-> "QueryMetricsSkill", success |-> FALSE]>>
    /\ final_state.final_response = Text(<<Part("failed", "")>>)

(* ---------------------------------------------------------------------- *)
(* C20                                                                     *)
(* ---------------------------------------------------------------------- *)
Terminal == {"complete", "error"}

\* C20: the stream is a finite sequence of events that begins with the
\* session event; a complete or error event is the last event of the
\* stream, so there is at most one of them, nothing follows an error and no
\* complete event is in a stream with an error; the generator has ended
\* exactly if the last event is one of the two.
C20_OneTerminalEvent ==
    /\ Len(events) <= Len(StageOrder) + 2
    /\ \A k \in DOMAIN events :
        /\ events[k] = "session" <=> k = 1
        /\ events[k] \in Terminal => k = Len(events)
    /\ spc = "closed" <=> (events # <<>> /\ events[Len(events)] \in Terminal)

\* a stream of three state updates, one for each stage, ended with the
\* complete event of a run that had called a skill
C20_Witness ==
    /\ spc = "closed"
    /\ events = <<"session", "state_update", "state_update", "state_update",
                  "complete">>
    /\ invoked # <<>>
    /\ node = "returned"

(* ---------------------------------------------------------------------- *)
(* C21                                                                     *)
(* ---------------------------------------------------------------------- *)
\* C21: with max_concurrency = 2, the two members of a batch of two are made
\* tasks by the same gather; the second can take its first step while the
\* first is still awaiting its handler, and the gather returns when both
\* have their result and not while one of them is still awaited.
C21_BothInFlight ==
    (pc = "await" /\ max_concurrency = 2 /\ Len(CurrentBatch) = 2) =>
        LET i == CurrentBatch[1]
            j == CurrentBatch[2]
        IN
        /\ task[i] # "new" /\ task[j] # "new"
        /\ (task[i] = "awaiting" /\ task[j] = "scheduled") => ENABLED StartSkill
        /\ (task[i] = "done" /\ task[j] = "done") <=> ENABLED GatherReturns

\* the handlers of two requests of one batch are running at the same time
C21_Witness ==
    /\ pc = "await"
    /\ max_concurrency = 2
    /\ Len(CurrentBatch) = 2
    /\ handler[CurrentBatch[1]] = "running"
    /\ handler[CurrentBatch[2]] = "running"

(* ---------------------------------------------------------------------- *)
(* C22                                                                     *)
(* ---------------------------------------------------------------------- *)
\* C22: while a batch with more members than max_concurrency is executed,
\* a member of it has not been started and the event loop has nothing left
\* to run but is waiting for handlers, exactly max_concurrency members of
\* the batch are in flight: a waiting member has taken the place of each
\* member that finished.
C22_SlotRefilled ==
    (pc = "await" /\ Len(CurrentBatch) > max_concurrency
        /\ (\E i \in Range(CurrentBatch) : task[i] = "awaiting")
        /\ (\A i \in Range(CurrentBatch) : task[i] # "scheduled")
        /\ (\E i \in Range(CurrentBatch) : task[i] = "new")) =>
        Cardinality(InFlight \cap Range(CurrentBatch)) = max_concurrency

(* ---------------------------------------------------------------------- *)
(* C23                                                                     *)
(* ---------------------------------------------------------------------- *)
\* C23: a result with the few-shot method is returned only from provider
\* calls that succeeded: the intent call had status 200 and named an intent,
\* and, for an intent other than chat, the parameter call had status 200 and
\* a JSON content; after any other answer the rule-based tier gave the
\* result.
C23_FailedCallFallsBack ==
    (rpc = "returned" /\ recognizer = "IntentRecognizerV2"
        /\ result.method = "prompt_engineering") =>
        /\ response.code = 200
        /\ \E k \in DOMAIN INTENTS : INTENTS[k] = response.content
        /\ result.intent # "chat" => response.params = "json"

(* ---------------------------------------------------------------------- *)
(* C24                                                                     *)
(* ---------------------------------------------------------------------- *)
\* the k-th intent of the order has the highest hit count of the message,
\* and no intent before it has as many hits
HighestFirst(order, rules, message, k) ==
    /\ \A j \in DOMAIN order :
        matches(message, rules[order[j]]) <= matches(message, rules[order[k]])
    /\ \A j \in 1..(k - 1) :
        matches(message, rules[order[j]]) < matches(message, rules[order[k]])

NoHits(order, rules, message) ==
    \A j \in DOMAIN order : matches(message, rules[order[j]]) = 0

\* the result came from the rule-based tier of the recognizer
FromRuleBasedTier ==
    /\ rpc = "returned"
    /\ attempted[Len(attempted)] = Tier("rule_based", "returned")

RemainingBefore(k) ==
    Requested \ {skill_requests[i].skill :
                    i \in UNION {Range(batches[m]) : m \in 1..(k - 1)}}

\* the k-th batch was built when no remaining skill was ready
Forced(k) == ready_skills_of(dependency_map, RemainingBefore(k)) = {}

\* C25: a batch built when no remaining skill was ready holds every request
\* not scheduled before it and is the last batch of the run, so a run has
\* at most one such batch; in every batch before it each request has all
\* its requested dependencies in strictly earlier batches.
C25_ForcedBatchIsLast ==
    \A k \in DOMAIN batches :
        Forced(k) =>
            /\ Range(batches[k]) =
                  {i \in Positions : skill_requests[i].skill \in RemainingBefore(k)}
            /\ k = Len(batches)
            /\ remaining = {}
            /\ \A m \in 1..(k - 1) :
                /\ ~Forced(m)
                /\ \A i \in Range(batches[m]) : \A d \in RequestedDeps(i) :
                    \A j \in Positions :
                        skill_requests[j].skill = d =>
                            BatchOfPosition(j) \in 1..(m - 1)

\* a batch without dependencies was built first, then the two skills of a
\* cycle were forced into the second and last batch
C25_Witness ==
    /\ pc = "gather"
    /\ Len(batches) = 2
    /\ Forced(2)
    /\ ~Forced(1)
    /\ Len(batches[2]) >= 2

(* ---------------------------------------------------------------------- *)
(* C26                                                                     *)
(* ---------------------------------------------------------------------- *)
\* the batches built so far are the ones _build_execution_batches builds
\* from the dependency map of the run
PlanOfMap ==
    \A k \in DOMAIN batches :
        batches[k] = batch_of(skill_requests,
                              ready_skills(dependency_map, RemainingBefore(k)))

\* C26: the dependency graph does not change while the batches of a run are
\* being built; a change of it during the run replaces the dependency list
\* of one skill as a whole and leaves the run as it is: its dependency map,
\* its batches and the progress through them. The batches of a run are at
\* every moment the plan of the one dependency map taken when the run began.
C26_PlanFromOneInstant ==
    /\ [][/\ pc = "build" => dependency_graph' = dependency_graph
          /\ (pc \in {"gather", "await"} /\ dependency_graph' # dependency_graph) =>
                /\ <<skill_requests, buildVars, execVars, pc>>' =
                       <<skill_requests, buildVars, execVars, pc>>
                /\ \E k \in Skills :
                    /\ dependency_graph'[k] \in SUBSET Skills
                    /\ \A t \in Skills \ {k} :
                        dependency_graph'[t] = dependency_graph[t]]_vars
    /\ [](pc # "idle" => PlanOfMap)

\* a run of two batches whose second batch is about to start although the
\* graph now says that its first batch depends on the second
C26_Witness ==
    /\ pc = "gather"
    /\ batch_idx = 2
    /\ Len(batches) = 2
    /\ \E i \in Range(batches[1]) : \E j \in Range(batches[2]) :
        /\ skill_requests[j].skill \in dependency_graph[skill_requests[i].skill]
        /\ skill_requests[j].skill \notin dependency_map[skill_requests[i].skill]

(* ---------------------------------------------------------------------- *)
(* C27                                                                     *)
(* ---------------------------------------------------------------------- *)
\* C27: every position of the list execute_skills returns holds the result
\* that the invocation of the request at that position produced, also when
\* several requests of the list name the same skill.
C27_OwnResult ==
    pc = "returned" =>
        \A i \in DOMAIN ordered_results : ordered_results[i] = task_result[i]

(* ---------------------------------------------------------------------- *)
(* C28                                                                     *)
(* ---------------------------------------------------------------------- *)
\* the skill execution stage of the run has returned
SkillStageDone ==
    /\ failure = ""
    /\ node \in {"response_generation", "END", "returned"}

\* C28: the skill execution stage never holds more results than selected
\* skills, and when it has returned, skill_results has one entry per
\* selected skill, under the skill's name and at the skill's position,
\* whatever the outcomes were; within one run every selected skill that the
\* registry holds has been invoked, in the order of selected_skills.
C28_OneResultPerSkill ==
    /\ Len(state.skill_results) <= Len(state.selected_skills)
    /\ SkillStageDone =>
        /\ Len(state.skill_results) = Len(state.selected_skills)
        /\ \A k \in DOMAIN state.selected_skills :
            state.skill_results[k].skill_name = state.selected_skills[k]
        /\ entry = "run" =>
            invoked = SelectSeq(state.selected_skills,
                                LAMBDA name : name \in registry.skills)

\* two skills were selected; the first is not in the registry and has a
\* failed result, the second was invoked after it and succeeded
C28_Witness ==
    /\ SkillStageDone
    /\ node = "returned"
    /\ state.selected_skills = <<"ExportSkill", "GenerateReportSkill">>
    /\ invoked = <<"GenerateReportSkill">>
    /\ ~state.skill_results[1].success
    /\ state.skill_results[2].success

(* ---------------------------------------------------------------------- *)
(* C29                                                                     *)
(* ---------------------------------------------------------------------- *)
\* C29: the success flag of a returned run is true exactly if the third
\* stage of its graph completed, whatever the classifier and the skills
\* did: a run whose classifier raised has success = true with intent chat
\* and confidence 0, and a run whose skills all failed has success = true
\* with the failed results; the metadata holds an error string exactly if
\* the flag is false.
C29_SuccessMeansCompleted ==
    node = "returned" =>
        LET md == final_state.metadata IN
        /\ md.success <=> (executed = StageOrder /\ state.final_response.set)
        /\ "error" \in DOMAIN md <=> ~md.success
        /\ (md.success /\ recognizer = "IntentRecognizerV2") =>
            /\ final_state.intent = "chat"
            /\ final_state.intent_confidence = Float(0)
        /\ md.success =>
            /\ final_state.skill_results = state.skill_results
            /\ Len(final_state.skill_results) = Len(final_state.selected_skills)

\* the classifier raised and the run returned success = true
C29_Witness ==
    /\ node = "returned"
    /\ entry = "run"
    /\ recognizer = "IntentRecognizerV2"
    /\ final_state.metadata = [success |-> TRUE]
    /\ final_state.intent = "chat"
    /\ final_state.intent_confidence = Float(0)

(* ---------------------------------------------------------------------- *)
(* C30                                                                     *)
(* ---------------------------------------------------------------------- *)
\* the state updates of the stream, one for each stage that the streamed
\* execution of the graph completed
StateUpdates == {k \in DOMAIN events : events[k] = "state_update"}

\* the stream has ended with its complete event
StreamCompleted ==
    /\ spc = "closed"
    /\ events[Len(events)] = "complete"

====
